---- MODULE Spec2Model ----
(***************************************************************************)
(* Model of src-tauri/src/services/permission_service.rs                   *)
(* (PermissionService): the POSIX (cfg(unix)) and Windows (cfg(windows))   *)
(* check/fix operations on an SSH key file and on the ~/.ssh directory,    *)
(* run by concurrent callers against one filesystem that an external       *)
(* actor may also modify.                                                  *)
(*                                                                         *)
(* Text is modelled as sequences of one-character strings, so that         *)
(* contains / trim / starts_with / to_lowercase / lines / format! are      *)
(* computed character by character as the code computes them.              *)
(***************************************************************************)
EXTENDS Integers, Sequences, FiniteSets, TLC

VARIABLES platform, kind, homeOk, exists, mode, acl, tool, calls, lastFix, ext

vars == <<platform, kind, homeOk, exists, mode, acl, tool, calls, lastFix, ext>>

----------------------------------------------------------------------------
(* Bounds of the model *)

\* number of modifications the external actor may make in one behaviour
MaxExt == 2

\* call slots: the callers that may be inside the service at the same time
Slots == {"c1", "c2"}

----------------------------------------------------------------------------
(* Text *)

KeyPath == <<"C", ":", "\\", "k">>
UserName == <<"B", "o", "b">>
UserAccount == <<"P", "C", "\\", "b", "o", "b">>
Administrators == <<"B", "U", "I", "L", "T", "I", "N", "\\", "A", "d", "m", "i", "n", "i", "s", "t", "r", "a", "t", "o", "r", "s">>
System == <<"N", "T", " ", "A", "U", "T", "H", "O", "R", "I", "T", "Y", "\\", "S", "Y", "S", "T", "E", "M">>
OtherAccount == <<"P", "C", "\\", "e", "v", "e">>
Successfully == <<"S", "u", "c", "c", "e", "s", "s", "f", "u", "l", "l", "y">>
StatusRest == <<" ", "p", "r", "o", "c", "e", "s", "s", "e", "d", " ", "1", " ", "f", "i", "l", "e", "s", ";", " ", "F", "a", "i", "l", "e", "d", " ", "p", "r", "o", "c", "e", "s", "s", "i", "n", "g", " ", "0", " ", "f", "i", "l", "e", "s">>
UpperChars == <<"A", "B", "C", "D", "E", "F", "G", "H", "I", "J", "K", "L", "M", "N", "O", "P", "Q", "R", "S", "T", "U", "V", "W", "X", "Y", "Z">>
LowerChars == <<"a", "b", "c", "d", "e", "f", "g", "h", "i", "j", "k", "l", "m", "n", "o", "p", "q", "r", "s", "t", "u", "v", "w", "x", "y", "z">>
OctDigits == <<"0", "1", "2", "3", "4", "5", "6", "7">>

\* char::to_lowercase on the characters that occur
LowerChar(ch) ==
    IF \E i \in DOMAIN UpperChars : UpperChars[i] = ch
    THEN LowerChars[CHOOSE i \in DOMAIN UpperChars : UpperChars[i] = ch]
    ELSE ch

\* str::to_lowercase
ToLowercase(s) == [i \in DOMAIN s |-> LowerChar(s[i])]

\* str::starts_with
StartsWith(s, p) == Len(p) <= Len(s) /\ SubSeq(s, 1, Len(p)) = p

\* str::contains
StrContains(s, p) ==
    \E i \in 1..(Len(s) + 1) :
        i + Len(p) - 1 <= Len(s) /\ SubSeq(s, i, i + Len(p) - 1) = p

IsSpace(ch) == ch \in {" ", "\t", "\r", "\n"}

\* str::trim
Trim(s) ==
    IF \A i \in DOMAIN s : IsSpace(s[i])
    THEN <<>>
    ELSE LET a == CHOOSE i \in DOMAIN s :
                      ~IsSpace(s[i]) /\ \A j \in 1..(i - 1) : IsSpace(s[j])
             b == CHOOSE i \in DOMAIN s :
                      ~IsSpace(s[i]) /\ \A j \in (i + 1)..Len(s) : IsSpace(s[j])
         IN  SubSeq(s, a, b)

\* str::lines: split at "\n"; a final line ending yields no empty last line
RECURSIVE StrLines(_)
StrLines(s) ==
    IF s = <<>> THEN <<>>
    ELSE IF \E i \in DOMAIN s : s[i] = "\n"
         THEN LET n == CHOOSE i \in DOMAIN s :
                          s[i] = "\n" /\ \A j \in 1..(i - 1) : s[j] # "\n"
              IN  <<SubSeq(s, 1, n - 1)>> \o StrLines(SubSeq(s, n + 1, Len(s)))
         ELSE <<s>>

\* octal digits of n, most significant first ("0" for 0)
RECURSIVE Octal(_)
Octal(n) == IF n < 8 THEN <<OctDigits[n + 1]>>
            ELSE Octal(n \div 8) \o <<OctDigits[(n % 8) + 1]>>

RECURSIVE PadZero(_, _)
PadZero(s, w) == IF Len(s) >= w THEN s ELSE PadZero(<<"0">> \o s, w)

\* format!("{:03o}", n)
Format03o(n) == PadZero(Octal(n), 3)

\* Option<String>
None == <<"None">>
Some(s) == <<"Some", s>>

----------------------------------------------------------------------------
(* Results: SshResult<PermissionCheckResult> and SshResult<PermissionFixResult>.
   tag is "Ok" or "Err"; ok is is_valid (check) or success (fix); smode is
   current_mode (check) or new_mode (fix); expected is expected_mode (check). *)

NoResult == [tag |-> "none", err |-> "", ok |-> FALSE, smode |-> None,
             expected |-> <<>>, message |-> <<>>]

Err(e) == [tag |-> "Err", err |-> e, ok |-> FALSE, smode |-> None,
           expected |-> <<>>, message |-> <<>>]

PermissionCheckResult(is_valid, current_mode, expected_mode, message) ==
    [tag |-> "Ok", err |-> "", ok |-> is_valid, smode |-> current_mode,
     expected |-> expected_mode, message |-> message]

PermissionFixResult(success, message, new_mode) ==
    [tag |-> "Ok", err |-> "", ok |-> success, smode |-> new_mode,
     expected |-> <<>>, message |-> message]

----------------------------------------------------------------------------
(* POSIX backend: pure parts *)

\* st_mode as metadata.permissions().mode() returns it: the file type bits
\* (S_IFREG 0o100000 for the key file, S_IFDIR 0o040000 for the directory)
\* over the 12 permission bits the filesystem holds
StMode(k, perm) == (IF k = "key" THEN 32768 ELSE 16384) + perm

\* the mask forgotten
PermBitsUnmasked(m) == m

\* mode & 0o777
PermBits(m) == m % 512

\* the mode a check compares with: file_mode == 0o600, dir_mode == 0o700
ExpectedMode(k) == IF k = "key" THEN 384 ELSE 448

\* expected_mode of a POSIX check: "600", "700"
ExpectedModeStr(k) == IF k = "key" THEN <<"6", "0", "0">> ELSE <<"7", "0", "0">>

\* a fix that sets the usual defaults 0o644 / 0o755 instead
FixModeLoose(k) == IF k = "key" THEN 420 ELSE 493

\* the mode a fix sets: Permissions::from_mode(0o600), from_mode(0o700)
FixMode(k) == IF k = "key" THEN 384 ELSE 448

\* check_key_permissions / check_ssh_dir_permissions (unix) from the metadata on
CheckResultUnix(k, st_mode) ==
    LET file_mode == PermBits(st_mode)
        mode_str  == Format03o(file_mode)
        is_valid  == file_mode = ExpectedMode(k)
    IN  PermissionCheckResult(
            is_valid, Some(mode_str), ExpectedModeStr(k),
            IF is_valid
            THEN IF k = "key" THEN <<"Key permissions are correct">>
                              ELSE <<"SSH directory permissions are correct">>
            ELSE IF k = "key"
                 THEN <<"Key permissions are {} but should be 600. File is too accessible.", mode_str>>
                 ELSE <<"SSH directory permissions are {} but should be 700", mode_str>>)

\* check_ssh_dir_permissions (unix and windows) when ~/.ssh does not exist
DirMissingCheckResult(p) ==
    PermissionCheckResult(
        FALSE, None,
        IF p = "unix" THEN <<"7", "0", "0">> ELSE <<"User only">>,
        <<"SSH directory does not exist">>)

\* fix_key_permissions (unix) from the verifying metadata read on
FixKeyResultUnix(st_mode) ==
    LET new_mode == PermBits(st_mode)
        mode_str == Format03o(new_mode)
    IN  PermissionFixResult(new_mode = 384, <<"Permissions set to {}", mode_str>>,
                            Some(mode_str))

\* fix_ssh_dir_permissions (unix) after set_permissions returned
FixDirResultUnix ==
    PermissionFixResult(TRUE, <<"SSH directory permissions set to 700">>,
                        Some(<<"7", "0", "0">>))

----------------------------------------------------------------------------
(* Windows backend: pure parts.  An ACL is the sequence of its entries in the
   order the tool lists them; an entry is [who, inh]: the account and whether
   the entry is inherited from the parent. *)

Ace(who, inh) == [who |-> who, inh |-> inh]

\* one entry as the tool prints it: account:(I)(F) or account:(F)
AceText(a) ==
    a.who \o <<":">> \o (IF a.inh THEN <<"(", "I", ")">> ELSE <<>>) \o <<"(", "F", ")">>

Spaces(n) == [i \in 1..n |-> " "]

RECURSIVE AceLines(_, _)
AceLines(aces, indent) ==
    IF aces = <<>> THEN <<>>
    ELSE Spaces(indent) \o AceText(Head(aces)) \o <<"\n">> \o AceLines(Tail(aces), indent)

\* stdout of a successful `icacls <path>`: "path user:(permissions)", the
\* further entries one per line indented under the first, an empty line and
\* the status line
IcaclsOutput(path, a) ==
    path \o <<" ">>
         \o (IF a = <<>> THEN <<"\n">>
             ELSE AceText(Head(a)) \o <<"\n">> \o AceLines(Tail(a), Len(path) + 1))
         \o <<"\n">> \o Successfully \o StatusRest \o <<"\n">>

\* the loop of check_key_permissions (windows) over the lines of stdout
RECURSIVE ParseLines(_, _, _, _)
ParseLines(lines, key_path, current_user, acc) ==
    IF lines = <<>> THEN acc
    ELSE LET line       == Head(lines)
             line_lower == ToLowercase(line)
             next ==
                 IF StrContains(line, key_path) \/ Trim(line) = <<>>
                 THEN acc
                 ELSE IF StrContains(line_lower, ToLowercase(current_user))
                 THEN [acc EXCEPT !.user_has_access = TRUE]
                 ELSE IF StrContains(line, Administrators) \/ StrContains(line, System)
                 THEN acc
                 ELSE IF StrContains(line, <<":">>) /\ ~StartsWith(Trim(line), Successfully)
                 THEN [acc EXCEPT !.has_other_users = TRUE]
                 ELSE acc
         IN  ParseLines(Tail(lines), key_path, current_user, next)

ParseAcl(stdout, key_path, current_user) ==
    ParseLines(StrLines(stdout), key_path, current_user,
               [user_has_access |-> FALSE, has_other_users |-> FALSE])

\* a tool failure raised instead of reported
ToolFailedCheckRaised(k) == Err("IoError")

\* check_key_permissions / check_ssh_dir_permissions (windows) when icacls
\* exits with failure
ToolFailedCheckResult(k) ==
    PermissionCheckResult(
        FALSE, None, <<"User only">>,
        IF k = "key" THEN <<"Failed to check file permissions">>
                     ELSE <<"Failed to check directory permissions">>)

\* check_key_permissions (windows) from the captured stdout on
CheckKeyResultWindows(stdout, key_path, current_user) ==
    LET p        == ParseAcl(stdout, key_path, current_user)
        is_valid == p.user_has_access /\ ~p.has_other_users
    IN  PermissionCheckResult(
            is_valid, Some(<<"ACL">>), <<"User only">>,
            IF is_valid
            THEN <<"Key permissions are correct (restricted to current user)">>
            ELSE IF p.has_other_users
            THEN <<"Key file is accessible by other users. Consider restricting permissions.">>
            ELSE <<"Unable to verify key permissions">>)

\* check_ssh_dir_permissions (windows) when icacls exits with success
CheckDirResultWindows ==
    PermissionCheckResult(
        TRUE, Some(<<"ACL">>), <<"User only">>,
        <<"SSH directory exists with Windows ACL permissions">>)

\* /grant without :r and without /inheritance:r: one more entry each run
IcaclsGrantAppend(a) == a \o <<Ace(UserAccount, FALSE)>>

\* the ACL `icacls <path> /inheritance:r /grant:r <user>:F` leaves: the
\* inherited entries removed, the user's explicit entries replaced by one
\* full-control entry, the other explicit entries kept
IcaclsGrant(a) ==
    <<Ace(UserAccount, FALSE)>>
        \o SelectSeq(a, LAMBDA e : ~e.inh /\ e.who # UserAccount)

\* fix_key_permissions / fix_ssh_dir_permissions (windows) from the exit status
FixResultWindows(k, success, current_user) ==
    IF success
    THEN PermissionFixResult(
             TRUE,
             IF k = "key"
             THEN <<"Permissions restricted to current user ({}) only", current_user>>
             ELSE <<"SSH directory permissions restricted to current user ({}) only", current_user>>,
             Some(<<"User only">>))
    ELSE PermissionFixResult(
             FALSE,
             IF k = "key" THEN <<"Failed to set permissions: {}">>
                          ELSE <<"Failed to set directory permissions: {}">>,
             None)

----------------------------------------------------------------------------
(* The environment.  The only OS error modelled for metadata and
   set_permissions is the path being absent (ENOENT); create_dir_all is taken
   to succeed.  icacls either cannot be started (output() is Err), exits with
   failure, or exits with success; it fails on a path that is absent. *)

\* permission bits (12 bits) a key file or directory is found with:
\* 0o400, 0o600, 0o644, 0o700, 0o4755
InitModes == {256, 384, 420, 448, 2541}

\* modes the external actor sets: 0o644, 0o700
ExtModes == {420, 448}

\* process umasks under which create_dir_all makes the directory: 0o022, 0o077
Umasks == {18, 63}

\* ACLs a key file or directory is found with
InitAcls ==
    { <<Ace(UserAccount, FALSE)>>,
      <<Ace(UserAccount, TRUE), Ace(Administrators, TRUE), Ace(System, TRUE)>>,
      <<Ace(Administrators, FALSE), Ace(UserAccount, FALSE)>>,
      <<Ace(OtherAccount, FALSE), Ace(UserAccount, FALSE)>>,
      <<Ace(UserAccount, FALSE), Ace(OtherAccount, TRUE)>> }

\* the ACL a directory made by create_dir_all inherits from the home directory
InheritedAcl ==
    <<Ace(System, TRUE), Ace(Administrators, TRUE), Ace(UserAccount, TRUE)>>

\* the state of the path on disk
Fs(e, m, a) == [exists |-> e, mode |-> m, acl |-> a]

NoFix == [set |-> FALSE, res |-> NoResult, fs |-> Fs(FALSE, 0, <<>>)]

Idle == [op |-> "idle", pc |-> "idle", res |-> NoResult, found |-> FALSE,
         gone |-> FALSE, exit |-> "none", meta |-> -1, clean |-> TRUE,
         prev |-> NoFix]

FixInFlight(c) ==
    \E d \in Slots \ {c} : calls[d].op = "fix" /\ calls[d].pc # "done"

Init ==
    /\ platform \in {"unix", "windows"}
    /\ kind \in {"key", "dir"}
    /\ homeOk \in (IF kind = "dir" THEN BOOLEAN ELSE {TRUE})
    /\ exists \in BOOLEAN
    /\ mode \in (IF exists /\ platform = "unix" THEN InitModes ELSE {0})
    /\ acl \in (IF exists /\ platform = "windows" THEN InitAcls ELSE {<<>>})
    /\ tool \in (IF platform = "windows" THEN {"ok", "fail", "nospawn"} ELSE {"ok"})
    /\ calls = [c \in Slots |-> Idle]
    /\ lastFix = NoFix
    /\ ext = 0

----------------------------------------------------------------------------
(* The operations, one action per step between two system calls *)

Here == Fs(exists, mode, acl)

\* the record of call c once it has returned r
Ended(c, r) == [calls[c] EXCEPT !.pc = "done", !.res = r]

\* the call c returns, its record becoming rec and the path being left as fs;
\* lastFix remembers the last fix that returned and whether it ran undisturbed
Finish(c, rec, fs) ==
    /\ calls' = [calls EXCEPT ![c] = rec]
    /\ lastFix' = IF rec.op = "fix"
                  THEN [set |-> rec.clean, res |-> rec.res, fs |-> fs]
                  ELSE lastFix

\* a caller enters check_* (o = "check") or fix_* (o = "fix")
Start(c, o) ==
    /\ calls[c].op = "idle"
    /\ calls' = [d \in Slots |->
                   IF d = c
                   THEN [Idle EXCEPT !.op = o, !.pc = "exists",
                                     !.prev = IF FixInFlight(c) THEN NoFix ELSE lastFix]
                   ELSE IF o = "fix" /\ calls[d].op = "fix"
                        THEN [calls[d] EXCEPT !.prev = NoFix]
                        ELSE calls[d]]
    /\ UNCHANGED <<platform, kind, homeOk, exists, mode, acl, tool, lastFix, ext>>

\* what a key operation returns when path.exists() is false
KeyMissingResult == Err("KeyNotFound")

\* what a directory operation returns when dirs::home_dir() is None
HomeMissingResult == Err("HomeDirNotFound")

\* dirs::home_dir().ok_or(HomeDirNotFound)? and path.exists()
Exists(c) ==
    /\ calls[c].pc = "exists"
    /\ IF kind = "dir" /\ ~homeOk
       THEN Finish(c, Ended(c, HomeMissingResult), Here)
       ELSE IF ~exists
       THEN IF kind = "key"
            THEN Finish(c, [Ended(c, KeyMissingResult) EXCEPT !.gone = TRUE], Here)
            ELSE IF calls[c].op = "check"
                 THEN Finish(c, [Ended(c, DirMissingCheckResult(platform))
                                    EXCEPT !.gone = TRUE], Here)
                 ELSE /\ calls' = [calls EXCEPT ![c].pc = "create"]
                      /\ UNCHANGED lastFix
       ELSE /\ calls' = [calls EXCEPT
                           ![c].found = TRUE,
                           ![c].pc = IF platform = "windows" THEN "tool"
                                     ELSE IF calls[c].op = "check" THEN "metadata"
                                     ELSE "set"]
            /\ UNCHANGED lastFix
    /\ UNCHANGED <<platform, kind, homeOk, exists, mode, acl, tool, ext>>

\* a create that resets the mode of a directory that is already there
CreateDirClobber(c) ==
    /\ calls[c].pc = "create"
    /\ exists' = TRUE
    /\ IF platform = "unix"
       THEN /\ \E u \in Umasks : mode' = 511 - u
            /\ UNCHANGED acl
       ELSE /\ acl' = InheritedAcl
            /\ UNCHANGED mode
    /\ calls' = [calls EXCEPT ![c].pc = IF platform = "unix" THEN "set" ELSE "tool"]
    /\ UNCHANGED <<platform, kind, homeOk, tool, lastFix, ext>>

\* std::fs::create_dir_all(&ssh_dir): makes the directory unless it is there
CreateDirAll(c) ==
    /\ calls[c].pc = "create"
    /\ IF exists
       THEN UNCHANGED <<exists, mode, acl>>
       ELSE /\ exists' = TRUE
            /\ IF platform = "unix"
               THEN /\ \E u \in Umasks : mode' = 511 - u
                    /\ UNCHANGED acl
               ELSE /\ acl' = InheritedAcl
                    /\ UNCHANGED mode
    /\ calls' = [calls EXCEPT ![c].pc = IF platform = "unix" THEN "set" ELSE "tool"]
    /\ UNCHANGED <<platform, kind, homeOk, tool, lastFix, ext>>

\* std::fs::metadata(path) of the unix checks, and the result built from it
Metadata(c) ==
    /\ calls[c].pc = "metadata"
    /\ IF ~exists
       THEN Finish(c, [Ended(c, Err("IoError")) EXCEPT !.gone = TRUE], Here)
       ELSE Finish(c, [Ended(c, CheckResultUnix(kind, StMode(kind, mode)))
                          EXCEPT !.meta = StMode(kind, mode)], Here)
    /\ UNCHANGED <<platform, kind, homeOk, exists, mode, acl, tool, ext>>

\* std::fs::set_permissions(path, from_mode(..)) of the unix fixes
SetPermissions(c) ==
    /\ calls[c].pc = "set"
    /\ IF ~exists
       THEN /\ Finish(c, [Ended(c, Err("IoError")) EXCEPT !.gone = TRUE], Here)
            /\ UNCHANGED mode
       ELSE /\ mode' = FixMode(kind)
            /\ calls' = [calls EXCEPT ![c].pc = IF kind = "key" THEN "verify" ELSE "ret"]
            /\ UNCHANGED lastFix
    /\ UNCHANGED <<platform, kind, homeOk, exists, acl, tool, ext>>

\* fix_key_permissions (unix): the verifying std::fs::metadata(path) and the
\* result built from it
Verify(c) ==
    /\ calls[c].pc = "verify"
    /\ IF ~exists
       THEN Finish(c, [Ended(c, Err("IoError")) EXCEPT !.gone = TRUE], Here)
       ELSE Finish(c, [Ended(c, FixKeyResultUnix(StMode(kind, mode)))
                          EXCEPT !.meta = StMode(kind, mode)], Here)
    /\ UNCHANGED <<platform, kind, homeOk, exists, mode, acl, tool, ext>>

\* fix_ssh_dir_permissions (unix): the result returned once set_permissions
\* has returned
ReturnFixDir(c) ==
    /\ calls[c].pc = "ret"
    /\ Finish(c, Ended(c, FixDirResultUnix), Here)
    /\ UNCHANGED <<platform, kind, homeOk, exists, mode, acl, tool, ext>>

\* Command::new("icacls")...output() of the windows operations, and the
\* result built from the exit status and the captured stdout
Icacls(c) ==
    /\ calls[c].pc = "tool"
    /\ IF tool = "nospawn"
       THEN /\ Finish(c, Ended(c, Err("IoError")), Here)
            /\ UNCHANGED acl
       ELSE LET success == tool = "ok" /\ exists
                status  == IF success THEN "success" ELSE "failure"
            IN  IF calls[c].op = "check"
                THEN /\ Finish(c,
                          [Ended(c,
                              IF ~success THEN ToolFailedCheckResult(kind)
                              ELSE IF kind = "key"
                              THEN CheckKeyResultWindows(
                                       IcaclsOutput(KeyPath, acl), KeyPath, UserName)
                              ELSE CheckDirResultWindows)
                           EXCEPT !.exit = status, !.gone = ~exists],
                          Here)
                     /\ UNCHANGED acl
                ELSE /\ acl' = IF success THEN IcaclsGrant(acl) ELSE acl
                     /\ Finish(c,
                          [Ended(c, FixResultWindows(kind, success, UserName))
                           EXCEPT !.exit = status, !.gone = ~exists],
                          Fs(exists, mode, acl'))
    /\ UNCHANGED <<platform, kind, homeOk, exists, mode, tool, ext>>

\* the caller has taken the result
Retire(c) ==
    /\ calls[c].pc = "done"
    /\ calls' = [calls EXCEPT ![c] = Idle]
    /\ UNCHANGED <<platform, kind, homeOk, exists, mode, acl, tool, lastFix, ext>>

----------------------------------------------------------------------------
(* The external actor: another process working on the same path *)

\* what every call in flight and the memory of the last fix become when the
\* path is modified from outside
Disturbed ==
    /\ calls' = [d \in Slots |->
                   IF calls[d].op = "idle" THEN calls[d]
                   ELSE [calls[d] EXCEPT !.prev = NoFix,
                                         !.clean = (calls[d].pc = "done") /\ calls[d].clean]]
    /\ lastFix' = NoFix
    /\ ext' = ext + 1

ExtChmod ==
    /\ ext < MaxExt /\ platform = "unix" /\ exists
    /\ \E m \in ExtModes : m # mode /\ mode' = m
    /\ Disturbed
    /\ UNCHANGED <<platform, kind, homeOk, exists, acl, tool>>

ExtRemove ==
    /\ ext < MaxExt /\ exists
    /\ exists' = FALSE /\ mode' = 0 /\ acl' = <<>>
    /\ Disturbed
    /\ UNCHANGED <<platform, kind, homeOk, tool>>

ExtCreate ==
    /\ ext < MaxExt /\ ~exists
    /\ exists' = TRUE
    /\ mode' \in (IF platform = "unix" THEN ExtModes ELSE {0})
    /\ acl' \in (IF platform = "windows" THEN InitAcls ELSE {<<>>})
    /\ Disturbed
    /\ UNCHANGED <<platform, kind, homeOk, tool>>

ExtSetAcl ==
    /\ ext < MaxExt /\ platform = "windows" /\ exists
    /\ \E a \in InitAcls : a # acl /\ acl' = a
    /\ Disturbed
    /\ UNCHANGED <<platform, kind, homeOk, exists, mode, tool>>

\* the tool starts or stops working (removed from PATH, access denied, ...)
ExtTool ==
    /\ ext < MaxExt /\ platform = "windows"
    /\ \E t \in {"ok", "fail", "nospawn"} : t # tool /\ tool' = t
    /\ Disturbed
    /\ UNCHANGED <<platform, kind, homeOk, exists, mode, acl>>

Next ==
    \/ \E c \in Slots, o \in {"check", "fix"} : Start(c, o)
    \/ \E c \in Slots : Exists(c)
    \/ \E c \in Slots : CreateDirAll(c)
    \/ \E c \in Slots : Metadata(c)
    \/ \E c \in Slots : SetPermissions(c)
    \/ \E c \in Slots : Verify(c)
    \/ \E c \in Slots : ReturnFixDir(c)
    \/ \E c \in Slots : Icacls(c)
    \/ \E c \in Slots : Retire(c)
    \/ ExtChmod
    \/ ExtRemove
    \/ ExtCreate
    \/ ExtSetAcl
    \/ ExtTool

Spec == Init /\ [][Next]_vars

----------------------------------------------------------------------------
(* The POSIX checks alone, over every value of the 12 permission bits *)

InitModes12 ==
    /\ platform = "unix"
    /\ kind \in {"key", "dir"}
    /\ homeOk = TRUE
    /\ exists = TRUE
    /\ mode \in 0..4095
    /\ acl = <<>>
    /\ tool = "ok"
    /\ calls = [c \in Slots |-> Idle]
    /\ lastFix = NoFix
    /\ ext = 0

NextCheck ==
    \/ \E c \in Slots : Start(c, "check")
    \/ \E c \in Slots : Exists(c)
    \/ \E c \in Slots : Metadata(c)
    \/ \E c \in Slots : Retire(c)

SpecCheck == InitModes12 /\ [][NextCheck]_vars

----------------------------------------------------------------------------
(* Properties *)

Returned(c, o) == calls[c].op = o /\ calls[c].pc = "done"

\* the call c started after a fix that ran undisturbed had returned Ok, and
\* the path has not been modified from outside since
AfterFix(c) == calls[c].prev.set /\ calls[c].prev.res.tag = "Ok"

\* C1: on the POSIX backend a check made after a fix of the same path has
\* returned, with no modification in between, reports is_valid = true and
\* current_mode = expected_mode ("600" for the key file, "700" for the
\* directory, which the fix creates when absent)
C1_CheckAfterFixValid ==
    \A c \in Slots :
        (platform = "unix" /\ Returned(c, "check") /\ AfterFix(c))
        => /\ calls[c].res.tag = "Ok"
           /\ calls[c].res.ok
           /\ calls[c].res.smode = Some(calls[c].res.expected)
           /\ calls[c].res.expected =
                  (IF kind = "key" THEN <<"6", "0", "0">> ELSE <<"7", "0", "0">>)

\* a check of the directory after the fix that found it absent and created it
C1_Witness ==
    \E c, d \in Slots :
        /\ platform = "unix" /\ kind = "dir" /\ Returned(c, "check") /\ AfterFix(c)
        /\ calls[c].res.ok
        /\ calls[c].res.smode = Some(<<"7", "0", "0">>)
        /\ Returned(d, "fix") /\ ~calls[d].found /\ calls[d].res = calls[c].prev.res

\* C2: on the Windows backend, after fix_key_permissions returned
\* success = true, a check_key_permissions of the same path with nothing in
\* between reports is_valid = true
C2_WindowsFixThenCheckValid ==
    \A c \in Slots :
        (platform = "windows" /\ kind = "key" /\ Returned(c, "check")
            /\ AfterFix(c) /\ calls[c].prev.res.ok)
        => calls[c].res.tag = "Ok" /\ calls[c].res.ok

\* the ACL of the path is still the one it was found with: nothing outside
\* and no fix has touched it
AclUntouched ==
    ext = 0 /\ lastFix = NoFix /\ \A d \in Slots : calls[d].op # "fix"

UserListed(a) == \E i \in DOMAIN a : a[i].who = UserAccount

OtherListed(a) ==
    \E i \in DOMAIN a : a[i].who \notin {UserAccount, Administrators, System}

\* C3: the Windows ACL parser gives is_valid = (the current user has an entry)
\* and not (a principal other than the user, the administrators group and the
\* system account has an entry), whatever the order of the entries and
\* whichever entry shares the line of the echoed path
C3_ParserVerdict ==
    \A c \in Slots :
        (platform = "windows" /\ kind = "key" /\ Returned(c, "check")
            /\ calls[c].exit = "success" /\ AclUntouched)
        => calls[c].res.ok = (UserListed(acl) /\ ~OtherListed(acl))

\* C4: check_key_permissions and fix_key_permissions that meet a missing key
\* path fail with KeyNotFound, also when the file disappears after the
\* existence test
C4_MissingKeyIsKeyNotFound ==
    \A c \in Slots :
        (platform = "unix" /\ kind = "key" /\ calls[c].pc = "done" /\ calls[c].gone)
        => calls[c].res = Err("KeyNotFound")

\* the three octal digits of nine permission bits
ThreeDigits(b) ==
    <<OctDigits[(b \div 64) + 1], OctDigits[((b \div 8) % 8) + 1], OctDigits[(b % 8) + 1]>>

\* C5: a POSIX check of an existing path reports is_valid = true iff the low
\* 9 permission bits equal 0o600 (key file) or 0o700 (directory) exactly;
\* current_mode is the 3-digit octal rendering of those bits and
\* expected_mode is "600" or "700"
C5_ExactModeMatch ==
    \A c \in Slots :
        Returned(c, "check")
        => /\ calls[c].res.tag = "Ok"
           /\ calls[c].res.ok = ((mode % 512) = (IF kind = "key" THEN 384 ELSE 448))
           /\ calls[c].res.smode = Some(ThreeDigits(mode % 512))
           /\ calls[c].res.expected =
                  (IF kind = "key" THEN <<"6", "0", "0">> ELSE <<"7", "0", "0">>)

\* mode 640 on a key file: is_valid = false, current_mode = "640"
C5_Witness ==
    \E c \in Slots :
        /\ kind = "key" /\ mode = 416 /\ Returned(c, "check")
        /\ ~calls[c].res.ok
        /\ calls[c].res.smode = Some(<<"6", "4", "0">>)
        /\ calls[c].res.expected = <<"6", "0", "0">>

C7_FixIdempotent ==
    \A c \in Slots :
        (Returned(c, "fix") /\ calls[c].prev.set)
        => /\ calls[c].res = calls[c].prev.res
           /\ Here = calls[c].prev.fs
           /\ (platform = "unix" /\ kind = "key" /\ calls[c].res.tag = "Ok")
                => /\ calls[c].res.ok
                   /\ calls[c].res.smode = Some(<<"6", "0", "0">>)
                   /\ mode = 384

\* the Windows fix re-run after a success
C7_Witness ==
    \E c \in Slots :
        /\ platform = "windows" /\ Returned(c, "fix") /\ calls[c].prev.set
        /\ calls[c].prev.res.ok /\ calls[c].res.ok
        /\ Len(acl) > 1

\* C8: every POSIX fix re-reads the metadata after setting the mode, reports
\* success = true only if the mode read equals the target, and reports the
\* mode read as new_mode
C8_FixVerifiesBeforeSuccess ==
    \A c \in Slots :
        (platform = "unix" /\ Returned(c, "fix") /\ calls[c].res.tag = "Ok")
        => /\ calls[c].meta # -1
           /\ calls[c].res.ok => (calls[c].meta % 512) = (IF kind = "key" THEN 384 ELSE 448)
           /\ calls[c].res.smode = Some(ThreeDigits(calls[c].meta % 512))

\* C9: a Windows check whose tool run succeeds, of the directory as of a key
\* file, returns is_valid = true only if the ACL shows an entry of the
\* current user and no entry of a non-trusted principal
C9_WindowsCheckParses ==
    \A c \in Slots :
        (platform = "windows" /\ Returned(c, "check")
            /\ calls[c].exit = "success" /\ AclUntouched /\ calls[c].res.ok)
        => (UserListed(acl) /\ ~OtherListed(acl))

\* some fix has completed its permission-set step
SomeFixHasSet ==
    \/ lastFix.res.tag = "Ok"
    \/ \E c \in Slots :
          /\ calls[c].op = "fix"
          /\ \/ calls[c].pc \in {"verify", "ret"}
             \/ calls[c].pc = "done" /\ calls[c].res.tag = "Ok"

\* C10: with concurrent fix and check calls on a POSIX path and no other
\* actor, once some fix has completed its permission-set step the path exists
\* with the target mode (so a check reads another mode only before that), and
\* a check started after every fix has returned reports is_valid = true
C10_ConcurrentFixesConverge ==
    (platform = "unix" /\ ext = 0)
    => /\ SomeFixHasSet
            => exists /\ (mode % 512) = (IF kind = "key" THEN 384 ELSE 448)
       /\ \A c \in Slots :
            (Returned(c, "check") /\ AfterFix(c)) => calls[c].res.ok

\* a check racing with the fix that has just created the directory under
\* umask 022 and has not yet set its mode reads the transient 755
C10_Witness ==
    \E c, d \in Slots :
        /\ platform = "unix" /\ kind = "dir" /\ ext = 0
        /\ Returned(c, "check")
        /\ calls[c].res.tag = "Ok" /\ ~calls[c].res.ok
        /\ calls[c].res.smode = Some(<<"7", "5", "5">>)
        /\ calls[d].op = "fix" /\ calls[d].pc = "set"
        /\ mode = 493

====
